---- MODULE Spec2Model ----
(***************************************************************************)
(* A model of configure.py, the Athena++ configuration script.             *)
(*                                                                         *)
(* The script is one linear pass: parse the command line, choose the       *)
(* default Riemann solver, test for incompatible arguments, fill the two   *)
(* dictionaries `definitions` and `makefile_options`, read the two         *)
(* templates, substitute, write the two output files and print a summary.  *)
(* Every block of the script is one action; `pc` names the next block.     *)
(* Strings are TLA+ strings, handled character by character (Len, SubSeq,  *)
(* \o), so concatenation and regular-expression substitution are modelled  *)
(* by what they do to the text.                                            *)
(***************************************************************************)
EXTENDS Integers, Sequences, FiniteSets, TLC

VARIABLES
    pc,                \* the block of the script that runs next
    argv,              \* the command line as given (never changes)
    env,               \* the files around the script: templates, writability, dict order
    args,              \* vars(parser.parse_args()), as the script updates it
    definitions,       \* the dictionary substituted into src/defs.hpp.in
    makefile_options,  \* the dictionary substituted into Makefile.in
    defsfile_template, \* text read from src/defs.hpp.in, then substituted in place
    makefile_template, \* text read from Makefile.in, then substituted in place
    files,             \* the output files: files.defs, files.makefile (<<>> = not written)
    stdout,            \* the lines printed so far
    exit_msg           \* <<>> while running or after success, <<msg>> after SystemExit/exception

vars == <<pc, argv, env, args, definitions, makefile_options, defsfile_template,
          makefile_template, files, stdout, exit_msg>>

-----------------------------------------------------------------------------
(* Bounds of the model *)

\* longest --include and --lib lists drawn
MaxPaths == 1
\* most pieces a drawn src/defs.hpp.in is made of
MaxDefsPieces == 2
\* most pieces a drawn Makefile.in is made of
MaxMakePieces == 1

-----------------------------------------------------------------------------
(* Step 1: the parser's declared choices and defaults *)

pgen_choices == {"shock_tube", "linear_wave", "gr_bondi", "resist", "jeans", "blast"}

coord_choices ==
    {"cartesian", "cylindrical", "spherical_polar", "minkowski", "sinusoidal",
     "tilted", "schwarzschild", "kerr-schild", "gr_user"}

eos_choices == {"adiabatic", "isothermal"}

flux_choices == {"default", "hlle", "hllc", "hlld", "roe", "llf"}

order_choices == {"plm"}

fint_choices == {"vl2"}

cxx_choices == {"g++", "icc", "cray", "bgxl", "icc-phi"}

\* The value of every option when the command line names none of them.
\* ccmd is <<>> for None and <<name>> for --ccmd=name.
Defaults ==
    [prob |-> "shock_tube", coord |-> "cartesian", eos |-> "adiabatic",
     flux |-> "default", order |-> "plm", fint |-> "vl2",
     b |-> FALSE, s |-> FALSE, g |-> FALSE, t |-> FALSE, sh |-> FALSE,
     debug |-> FALSE, mpi |-> FALSE, omp |-> FALSE, hdf5 |-> FALSE,
     hdf5_path |-> "", cxx |-> "g++", ccmd |-> <<>>,
     include |-> <<>>, lib |-> <<>>, unrecognized |-> <<>>]

\* argparse accepts a command line iff every enumerated option is among its choices
\* and it could place every token (a.unrecognized lists the ones it could not).
ParseOK(a) ==
    /\ a.unrecognized = <<>>
    /\ a.prob \in pgen_choices
    /\ a.coord \in coord_choices
    /\ a.eos \in eos_choices
    /\ a.flux \in flux_choices
    /\ a.order \in order_choices
    /\ a.fint \in fint_choices
    /\ a.cxx \in cxx_choices

-----------------------------------------------------------------------------
(* Step 2: default flux and the tests for incompatible arguments *)

DefaultFluxIsothermalForgotten(a) ==
    IF a.flux = "default"
    THEN IF a.g THEN "hlle"
         ELSE IF a.b THEN "hlld"
         ELSE "hllc"
    ELSE a.flux

DefaultFluxPrecedenceSwapped(a) ==
    IF a.flux = "default"
    THEN IF a.b THEN "hlld"
         ELSE IF a.g THEN "hlle"
         ELSE IF a.eos = "isothermal" THEN "hlle"
         ELSE "hllc"
    ELSE a.flux

\* The flux after "Set default flux".
DefaultFlux(a) ==
    IF a.flux = "default"
    THEN IF a.g THEN "hlle"
         ELSE IF a.b THEN "hlld"
         ELSE IF a.eos = "isothermal" THEN "hlle"
         ELSE "hllc"
    ELSE a.flux

FlatCoords == {"cartesian", "cylindrical", "spherical_polar"}

TransformFreeFluxes == {"llf", "hlle"}

Rule1(a) == a.flux = "hllc" /\ a.eos = "isothermal"
Rule2(a) == a.flux = "hllc" /\ a.b
Rule3(a) == a.flux = "hlld" /\ ~a.b
Rule4(a) == a.s /\ a.g
Rule5(a) == a.t /\ ~a.g
Rule6(a) == a.g /\ ~a.t /\ a.flux \notin TransformFreeFluxes
Rule7(a) == a.g /\ a.coord \in FlatCoords
Rule8(a) == ~a.g /\ a.coord \notin FlatCoords

Rule9WithoutRelativity(a) == a.eos = "isothermal"

Rule9(a) == a.eos = "isothermal" /\ (a.s \/ a.g)

Msg1 == "### CONFIGURE ERROR: HLLC flux cannot be used with isothermal EOS"
Msg2 == "### CONFIGURE ERROR: HLLC flux cannot be used with MHD"
Msg3 == "### CONFIGURE ERROR: HLLD flux can only be used with MHD"
Msg4 == "### CONFIGURE ERROR: " \o "GR implies SR; the -s option is restricted to pure SR"
Msg5 == "### CONFIGURE ERROR: Frame transformations only apply to GR"
Msg6(a) == "### CONFIGURE ERROR: Frame transformations required for " \o a.flux
Msg7(a) == "### CONFIGURE ERROR: " \o "GR cannot be used with " \o a.coord \o " coordinates"
Msg8(a) == "### CONFIGURE ERROR: " \o a.coord \o " coordinates only apply to GR"
Msg9 == "### CONFIGURE ERROR: " \o "Isothermal EOS is incompatible with relativity"

CompatibilityErrorHllcChecksSwapped(a) ==
    IF Rule2(a) THEN <<Msg2>>
    ELSE IF Rule1(a) THEN <<Msg1>>
    ELSE IF Rule3(a) THEN <<Msg3>>
    ELSE IF Rule4(a) THEN <<Msg4>>
    ELSE IF Rule5(a) THEN <<Msg5>>
    ELSE IF Rule6(a) THEN <<Msg6(a)>>
    ELSE IF Rule7(a) THEN <<Msg7(a)>>
    ELSE IF Rule8(a) THEN <<Msg8(a)>>
    ELSE IF Rule9(a) THEN <<Msg9>>
    ELSE <<>>

CompatibilityErrorCoordinatesUnchecked(a) ==
    IF Rule1(a) THEN <<Msg1>>
    ELSE IF Rule2(a) THEN <<Msg2>>
    ELSE IF Rule3(a) THEN <<Msg3>>
    ELSE IF Rule4(a) THEN <<Msg4>>
    ELSE IF Rule5(a) THEN <<Msg5>>
    ELSE IF Rule6(a) THEN <<Msg6(a)>>
    ELSE IF Rule9(a) THEN <<Msg9>>
    ELSE <<>>

\* The chain of `if ...: raise SystemExit(...)`: <<message>> of the first test that
\* fires, <<>> when none does.
CompatibilityError(a) ==
    IF Rule1(a) THEN <<Msg1>>
    ELSE IF Rule2(a) THEN <<Msg2>>
    ELSE IF Rule3(a) THEN <<Msg3>>
    ELSE IF Rule4(a) THEN <<Msg4>>
    ELSE IF Rule5(a) THEN <<Msg5>>
    ELSE IF Rule6(a) THEN <<Msg6(a)>>
    ELSE IF Rule7(a) THEN <<Msg7(a)>>
    ELSE IF Rule8(a) THEN <<Msg8(a)>>
    ELSE IF Rule9(a) THEN <<Msg9>>
    ELSE <<>>

-----------------------------------------------------------------------------
(* Step 3: definitions and Makefile options *)

\* d[k] = v, whether or not k was a key already.
Put(d, k, v) == (k :> v) @@ d

EmptyDict == [k \in {} |-> ""]

NonBarotropicEos(a) == IF a.eos = "adiabatic" THEN "1" ELSE "0"

NhydroVariablesSwapped(a) == IF a.eos = "adiabatic" THEN "4" ELSE "5"

\* definitions['NHYDRO_VARIABLES']
NhydroVariables(a) == IF a.eos = "adiabatic" THEN "5" ELSE "4"

\* definitions['NFIELD_VARIABLES']
NfieldVariables(a) == IF a.b THEN "3" ELSE "0"

\* definitions['NWAVE_VALUE']
NwaveValue(a) ==
    IF a.b
    THEN IF a.eos = "adiabatic" THEN "7" ELSE "6"
    ELSE IF a.eos = "adiabatic" THEN "5" ELSE "4"

EosFileRelativityFirst(a) ==
    LET rel == a.eos \o (IF a.s THEN "_sr" ELSE "") \o (IF a.g THEN "_gr" ELSE "")
    IN  rel \o (IF a.b THEN "_mhd" ELSE "_hydro")

\* makefile_options['EOS_FILE'] at the end of step 3 (before '.cpp')
EosFile(a) ==
    LET mag == a.eos \o (IF a.b THEN "_mhd" ELSE "_hydro")
        sr  == mag \o (IF a.s THEN "_sr" ELSE "")
    IN  sr \o (IF a.g THEN "_gr" ELSE "")

RsolverFileNoTransformForAnyRelativity(a) ==
    LET mhd == a.flux \o (IF a.b /\ a.flux \in {"hlle", "llf", "roe"} THEN "_mhd" ELSE "")
        iso == mhd \o (IF a.b /\ a.eos # "adiabatic" /\ a.flux = "hlld" THEN "_iso" ELSE "")
        sr  == iso \o (IF a.s THEN "_rel" \o (IF ~a.t THEN "_no_transform" ELSE "") ELSE "")
    IN  sr \o (IF a.g THEN "_rel" \o (IF ~a.t THEN "_no_transform" ELSE "") ELSE "")

\* makefile_options['RSOLVER_FILE'] at the end of step 3 (before '.cpp')
RsolverFile(a) ==
    LET mhd == a.flux \o (IF a.b /\ a.flux \in {"hlle", "llf", "roe"} THEN "_mhd" ELSE "")
        iso == mhd \o (IF a.b /\ a.eos # "adiabatic" /\ a.flux = "hlld" THEN "_iso" ELSE "")
        sr  == iso \o (IF a.s THEN "_rel" ELSE "")
    IN  sr \o (IF a.g THEN "_rel" \o (IF ~a.t THEN "_no_transform" ELSE "") ELSE "")

Flag01(x) == IF x THEN "1" ELSE "0"

\* `definitions` after the --prob ... -sh blocks, keys in the order the script adds them
PhysicsDefinitions(a) ==
    [PROBLEM |-> a.prob,
     COORDINATE_SYSTEM |-> a.coord,
     NON_BAROTROPIC_EOS |-> NonBarotropicEos(a),
     NHYDRO_VARIABLES |-> NhydroVariables(a),
     RSOLVER |-> a.flux,
     RECONSTRUCT |-> a.order,
     HYDRO_INTEGRATOR |-> a.fint,
     MAGNETIC_FIELDS_ENABLED |-> Flag01(a.b),
     NFIELD_VARIABLES |-> NfieldVariables(a),
     NWAVE_VALUE |-> NwaveValue(a),
     RELATIVISTIC_DYNAMICS |-> Flag01(a.s \/ a.g),
     GENERAL_RELATIVITY |-> Flag01(a.g),
     FRAME_TRANSFORMATIONS |-> Flag01(a.t),
     SHEARING_BOX |-> Flag01(a.sh)]

\* `makefile_options` after the --prob ... -sh blocks
PhysicsMakefileOptions(a) ==
    [LOADER_FLAGS |-> "",
     PROBLEM_FILE |-> a.prob,
     COORDINATES_FILE |-> a.coord,
     EOS_FILE |-> EosFile(a),
     RSOLVER_FILE |-> RsolverFile(a),
     RECONSTRUCT_FILE |-> a.order,
     HYDRO_INT_FILE |-> a.fint,
     RSOLVER_DIR |-> IF a.b THEN "mhd/" ELSE "hydro/"]

(* --cxx: what each toolchain binds *)

CompilerChoice(cxx) ==
    CASE cxx = "g++" -> "g++"
      [] cxx = "icc" -> "icc"
      [] cxx = "cray" -> "cray"
      [] cxx = "bgxl" -> "bgxlc++"
      [] cxx = "icc-phi" -> "icc"

CompilerCommand(cxx) ==
    CASE cxx = "g++" -> "g++"
      [] cxx = "icc" -> "icc"
      [] cxx = "cray" -> "CC"
      [] cxx = "bgxl" -> "bgxlc++"
      [] cxx = "icc-phi" -> "icc"

BaseCompilerFlags(cxx) ==
    CASE cxx = "g++" -> "-O3 -march=native -ffast-math"
      [] cxx = "icc" -> "-O3 -xhost -ipo -inline-forceinline"
      [] cxx = "cray" -> "-O3 -h aggress -h vector3 -hfp3"
      [] cxx = "bgxl" ->
            "-O3 -qhot=level=1:vector -qinline=level=5:auto -qipa=level=1:noobject"
            \o " -qstrict=subnormals -qmaxmem=150000 -qlanglvl=extended -qsuppress=1500-036"
            \o " -qsuppress=1540-1401 -qsuppress=1586-083 -qsuppress=1586-233"
            \o " -qsuppress=1586-267"
      [] cxx = "icc-phi" -> "-O3 -xMIC-AVX512 -ipo -inline-forceinline"

BaseLinkerFlags(cxx) ==
    CASE cxx = "cray" -> "-hwp -hpl=obj/lib"
      [] cxx = "bgxl" -> BaseCompilerFlags(cxx)
      [] OTHER -> ""

BaseLibraryFlags(cxx) == IF cxx = "cray" THEN "-lm" ELSE ""

\* what -debug assigns to makefile_options['COMPILER_FLAGS']
DebugFlags(cxx) ==
    CASE cxx \in {"g++", "icc"} -> "-O0 -g"
      [] cxx = "cray" -> "-O0"
      [] cxx = "bgxl" -> "-O0 -g -qlanglvl=extended"
      [] cxx = "icc-phi" -> "-O0 -g -xMIC-AVX512"

\* d[k] += suffix
AddTo(d, k, suffix) == [d EXCEPT ![k] = @ \o suffix]

\* makefile_options['COMPILER_FLAGS'] after the -mpi block
MpiCompilerFlags(cxx, flags) == IF cxx = "cray" THEN flags \o " -h mpi1" ELSE flags

\* the compiler command after the -mpi block
MpiCompilerCommand(cxx, cmd) ==
    IF cxx \in {"g++", "icc", "icc-phi"} THEN "mpicxx"
    ELSE IF cxx = "bgxl" THEN "mpixlcxx"
    ELSE cmd

\* what the -omp block appends to makefile_options['COMPILER_FLAGS']
OmpFlagSuffix(cxx, omp) ==
    IF omp
    THEN CASE cxx = "g++" -> " -fopenmp"
           [] cxx \in {"icc", "icc-phi"} -> " -openmp"
           [] cxx = "cray" -> " -homp"
           [] cxx = "bgxl" -> " -qsmp"
    ELSE CASE cxx = "cray" -> " -hnoomp"
           [] cxx \in {"icc", "icc-phi"} -> " -diag-disable 3180"
           [] OTHER -> ""

\* what the -hdf5 block appends to PREPROCESSOR_FLAGS, LINKER_FLAGS and LIBRARY_FLAGS
Hdf5PreprocessorSuffix(a) ==
    (IF a.hdf5_path # "" THEN "-I" \o a.hdf5_path \o "/include" ELSE "")
    \o (IF a.cxx = "bgxl"
        THEN " -D_LARGEFILE_SOURCE -D_LARGEFILE64_SOURCE -D_BSD_SOURCE"
             \o " -I/soft/libraries/hdf5/1.10.0/cnk-xl/current/include"
             \o " -I/bgsys/drivers/ppcfloor/comm/include"
        ELSE "")

Hdf5LinkerSuffix(a) ==
    (IF a.hdf5_path # "" THEN "-L" \o a.hdf5_path \o "/lib" ELSE "")
    \o (IF a.cxx = "bgxl"
        THEN " -L/soft/libraries/hdf5/1.10.0/cnk-xl/current/lib"
             \o " -L/soft/libraries/alcf/current/xl/ZLIB/lib"
        ELSE "")

Hdf5LibrarySuffix(a) ==
    IF a.cxx \in {"g++", "icc", "cray", "icc-phi"} THEN " -lhdf5"
    ELSE IF a.cxx = "bgxl" THEN " -lhdf5 -lz -lm"
    ELSE ""

RECURSIVE PathFlags(_, _)
\* the text `for path in paths: flags += ' ' + opt + path` appends
PathFlags(opt, paths) ==
    IF paths = <<>> THEN ""
    ELSE " " \o opt \o Head(paths) \o PathFlags(opt, Tail(paths))

JoinFlagsLinkerFirst(mo) ==
    mo["PREPROCESSOR_FLAGS"] \o " " \o mo["LINKER_FLAGS"] \o " "
        \o mo["COMPILER_FLAGS"] \o " " \o mo["LIBRARY_FLAGS"]

\* ' '.join([makefile_options[opt+'_FLAGS'] for opt in
\*           ['PREPROCESSOR','COMPILER','LINKER','LIBRARY']])
JoinFlags(mo) ==
    mo["PREPROCESSOR_FLAGS"] \o " " \o mo["COMPILER_FLAGS"] \o " "
        \o mo["LINKER_FLAGS"] \o " " \o mo["LIBRARY_FLAGS"]

\* the six file names that step 4 ends with '.cpp'
FileKeys ==
    <<"PROBLEM_FILE", "COORDINATES_FILE", "EOS_FILE", "RSOLVER_FILE",
      "RECONSTRUCT_FILE", "HYDRO_INT_FILE">>

TerminateFilenames(mo) ==
    [k \in DOMAIN mo |->
        IF \E i \in 1..Len(FileKeys) : FileKeys[i] = k THEN mo[k] \o ".cpp" ELSE mo[k]]

-----------------------------------------------------------------------------
(* Step 4: substitution *)

\* The keys of each dictionary in the order the script first assigns them, which is
\* the order .items() yields them from Python 3.7 on.
DefinitionsKeys ==
    <<"PROBLEM", "COORDINATE_SYSTEM", "NON_BAROTROPIC_EOS", "NHYDRO_VARIABLES",
      "RSOLVER", "RECONSTRUCT", "HYDRO_INTEGRATOR", "MAGNETIC_FIELDS_ENABLED",
      "NFIELD_VARIABLES", "NWAVE_VALUE", "RELATIVISTIC_DYNAMICS",
      "GENERAL_RELATIVITY", "FRAME_TRANSFORMATIONS", "SHEARING_BOX",
      "COMPILER_CHOICE", "COMPILER_COMMAND", "DEBUG", "MPI_OPTION",
      "OPENMP_OPTION", "HDF5_OPTION", "COMPILER_FLAGS">>

MakefileKeys ==
    <<"LOADER_FLAGS", "PROBLEM_FILE", "COORDINATES_FILE", "EOS_FILE",
      "RSOLVER_FILE", "RECONSTRUCT_FILE", "HYDRO_INT_FILE", "RSOLVER_DIR",
      "COMPILER_COMMAND", "PREPROCESSOR_FLAGS", "COMPILER_FLAGS", "LINKER_FLAGS",
      "LIBRARY_FLAGS">>

Reverse(seq) == [i \in 1..Len(seq) |-> seq[Len(seq) + 1 - i]]

\* The order in which .items() yields the keys. Before Python 3.7 it is the hash
\* order of the build (and of the run, under hash randomisation); the model draws
\* it from the insertion order and its reverse.
ItemsOrder(keys, order) == IF order = "insertion" THEN keys ELSE Reverse(keys)

\* the least position j >= i where pat occurs in text, 0 when there is none
Find(pat, text, i) ==
    LET at == {j \in i..(Len(text) - Len(pat) + 1) : SubSeq(text, j, j + Len(pat) - 1) = pat}
    IN  IF at = {} THEN 0 ELSE CHOOSE j \in at : \A k \in at : j <= k

RECURSIVE ExpandFrom(_, _)
\* re's expansion of a replacement string from position i on: <<text>>, or <<>>
\* when re.sub raises re.error. A doubled backslash is one backslash, backslash-n a
\* newline, a backslash before a digit an invalid group reference, a backslash at
\* the end a bad escape; any other escaped character is kept with its backslash
\* (Python 3.7 and later raise on an escaped ASCII letter other than the known
\* escapes; no value drawn here holds one).
ExpandFrom(v, i) ==
    LET j == Find("\\", v, i) IN
    IF j = 0 THEN <<SubSeq(v, i, Len(v))>>
    ELSE IF j = Len(v) THEN <<>>
    ELSE LET e == SubSeq(v, j + 1, j + 1)
             rest == ExpandFrom(v, j + 2)
             esc == IF e = "\\" THEN "\\" ELSE IF e = "n" THEN "\n" ELSE "\\" \o e
         IN  IF e \in {"0", "1", "2", "3", "4", "5", "6", "7", "8", "9"} \/ rest = <<>>
             THEN <<>>
             ELSE <<SubSeq(v, i, j - 1) \o esc \o rest[1]>>

RECURSIVE ReplaceFrom(_, _, _, _)
\* the text from position i on with every leftmost non-overlapping match of pat
\* replaced by repl
ReplaceFrom(pat, repl, text, i) ==
    LET j == Find(pat, text, i) IN
    IF j = 0 THEN SubSeq(text, i, Len(text))
    ELSE SubSeq(text, i, j - 1) \o repl \o ReplaceFrom(pat, repl, text, j + Len(pat))

\* re.sub(r'@{0}@'.format(key), val, text): <<new text>>, or <<>> when it raises
ReSub(key, val, text) ==
    LET repl == ExpandFrom(val, 1)
    IN  IF repl = <<>> THEN <<>>
        ELSE <<ReplaceFrom("@" \o key \o "@", repl[1], text, 1)>>

RECURSIVE SubstituteAll(_, _, _, _)
\* for key,val in d.items(): text = re.sub('@key@', val, text), the keys taken in
\* the order keys[i], keys[i+1], ...: <<final text>>, or <<>> when a re.sub raises
SubstituteAll(d, keys, i, text) ==
    IF i > Len(keys) THEN <<text>>
    ELSE LET r == ReSub(keys[i], d[keys[i]], text)
         IN  IF r = <<>> THEN <<>> ELSE SubstituteAll(d, keys, i + 1, r[1])

OnOff(x) == IF x THEN "ON" ELSE "OFF"

\* the lines of "Finish with diagnostic output"
Summary(a, mo) ==
    <<"Your Athena++ distribution has now been configured with the following options:",
      "  Problem generator:       " \o a.prob,
      "  Coordinate system:       " \o a.coord,
      "  Equation of state:       " \o a.eos,
      "  Riemann solver:          " \o a.flux,
      "  Reconstruction method:   " \o a.order,
      "  Hydro integrator:        " \o a.fint,
      "  Magnetic fields:         " \o OnOff(a.b),
      "  Special relativity:      " \o OnOff(a.s),
      "  General relativity:      " \o OnOff(a.g),
      "  Frame transformations:   " \o OnOff(a.t),
      "  ShearingBox:             " \o OnOff(a.sh),
      "  Debug flags:             " \o OnOff(a.debug),
      "  Linker flags:            " \o mo["LINKER_FLAGS"] \o " " \o mo["LIBRARY_FLAGS"],
      "  MPI parallelism:         " \o OnOff(a.mpi),
      "  OpenMP parallelism:      " \o OnOff(a.omp),
      "  HDF5 output:             " \o OnOff(a.hdf5),
      "  Compiler:                " \o a.cxx,
      "  Compilation command:     " \o mo["COMPILER_COMMAND"] \o " "
          \o mo["PREPROCESSOR_FLAGS"] \o " " \o mo["COMPILER_FLAGS"]>>

-----------------------------------------------------------------------------
(* The blocks of the script, in order *)

\* raise SystemExit(msg), or an uncaught exception: nothing runs afterwards
Abort(msg) == pc' = "exit" /\ exit_msg' = <<msg>>

\* the message parser.error() ends the run with
ParseError(a) ==
    IF a.unrecognized # <<>> THEN "configure.py: error: unrecognized arguments"
    ELSE "configure.py: error: invalid choice"

\* args = vars(parser.parse_args())
ParseArgs ==
    /\ pc = "parse"
    /\ IF ParseOK(argv)
       THEN pc' = "default_flux" /\ args' = argv /\ UNCHANGED exit_msg
       ELSE Abort(ParseError(argv)) /\ UNCHANGED args
    /\ UNCHANGED <<argv, env, definitions, makefile_options, defsfile_template,
                   makefile_template, files, stdout>>

\* Set default flux
SetDefaultFlux ==
    /\ pc = "default_flux"
    /\ args' = [args EXCEPT !.flux = DefaultFlux(args)]
    /\ pc' = "check"
    /\ UNCHANGED <<argv, env, definitions, makefile_options, defsfile_template,
                   makefile_template, files, stdout, exit_msg>>

\* Check Riemann solver compatibility; Check relativity
CheckCompatibility ==
    /\ pc = "check"
    /\ LET err == CompatibilityError(args)
       IN  IF err = <<>> THEN pc' = "physics" /\ UNCHANGED exit_msg
           ELSE Abort(err[1])
    /\ UNCHANGED <<argv, env, args, definitions, makefile_options, defsfile_template,
                   makefile_template, files, stdout>>

\* Prepare dictionaries; the --prob ... -t and -sh blocks
SetPhysics ==
    /\ pc = "physics"
    /\ definitions' = PhysicsDefinitions(args)
    /\ makefile_options' = PhysicsMakefileOptions(args)
    /\ pc' = "cxx"
    /\ UNCHANGED <<argv, env, args, defsfile_template, makefile_template, files,
                   stdout, exit_msg>>

\* --cxx=[name] argument
SetCompiler ==
    /\ pc = "cxx"
    /\ definitions' =
          Put(Put(definitions, "COMPILER_CHOICE", CompilerChoice(args.cxx)),
              "COMPILER_COMMAND", CompilerCommand(args.cxx))
    /\ makefile_options' =
          Put(Put(Put(Put(Put(makefile_options,
              "COMPILER_COMMAND", CompilerCommand(args.cxx)),
              "PREPROCESSOR_FLAGS", ""),
              "COMPILER_FLAGS", BaseCompilerFlags(args.cxx)),
              "LINKER_FLAGS", BaseLinkerFlags(args.cxx)),
              "LIBRARY_FLAGS", BaseLibraryFlags(args.cxx))
    /\ pc' = "debug"
    /\ UNCHANGED <<argv, env, args, defsfile_template, makefile_template, files,
                   stdout, exit_msg>>

\* -debug argument
SetDebug ==
    /\ pc = "debug"
    /\ definitions' = Put(definitions, "DEBUG", IF args.debug THEN "DEBUG" ELSE "NOT_DEBUG")
    /\ makefile_options' =
          IF args.debug
          THEN Put(makefile_options, "COMPILER_FLAGS", DebugFlags(args.cxx))
          ELSE makefile_options
    /\ pc' = "mpi"
    /\ UNCHANGED <<argv, env, args, defsfile_template, makefile_template, files,
                   stdout, exit_msg>>

\* -mpi argument
SetMpi ==
    /\ pc = "mpi"
    /\ IF args.mpi
       THEN LET cmd == MpiCompilerCommand(args.cxx, makefile_options["COMPILER_COMMAND"])
            IN  /\ definitions' =
                      Put(Put(definitions, "MPI_OPTION", "MPI_PARALLEL"),
                          "COMPILER_COMMAND",
                          MpiCompilerCommand(args.cxx, definitions["COMPILER_COMMAND"]))
                /\ makefile_options' =
                      Put(Put(makefile_options, "COMPILER_COMMAND", cmd),
                          "COMPILER_FLAGS",
                          MpiCompilerFlags(args.cxx, makefile_options["COMPILER_FLAGS"]))
       ELSE /\ definitions' = Put(definitions, "MPI_OPTION", "NOT_MPI_PARALLEL")
            /\ UNCHANGED makefile_options
    /\ pc' = "omp"
    /\ UNCHANGED <<argv, env, args, defsfile_template, makefile_template, files,
                   stdout, exit_msg>>

\* -omp argument
SetOmp ==
    /\ pc = "omp"
    /\ LET thread_safe == IF args.omp /\ args.cxx = "bgxl" THEN "_r" ELSE ""
       IN  /\ definitions' =
                 AddTo(Put(definitions, "OPENMP_OPTION",
                           IF args.omp THEN "OPENMP_PARALLEL" ELSE "NOT_OPENMP_PARALLEL"),
                       "COMPILER_COMMAND", thread_safe)
           /\ makefile_options' =
                 AddTo(AddTo(makefile_options, "COMPILER_COMMAND", thread_safe),
                       "COMPILER_FLAGS", OmpFlagSuffix(args.cxx, args.omp))
    /\ pc' = "hdf5"
    /\ UNCHANGED <<argv, env, args, defsfile_template, makefile_template, files,
                   stdout, exit_msg>>

\* -hdf5 argument
SetHdf5 ==
    /\ pc = "hdf5"
    /\ IF args.hdf5
       THEN /\ definitions' = Put(definitions, "HDF5_OPTION", "HDF5OUTPUT")
            /\ makefile_options' =
                  AddTo(AddTo(AddTo(makefile_options,
                      "PREPROCESSOR_FLAGS", Hdf5PreprocessorSuffix(args)),
                      "LINKER_FLAGS", Hdf5LinkerSuffix(args)),
                      "LIBRARY_FLAGS", Hdf5LibrarySuffix(args))
       ELSE /\ definitions' = Put(definitions, "HDF5_OPTION", "NO_HDF5OUTPUT")
            /\ UNCHANGED makefile_options
    /\ pc' = "paths"
    /\ UNCHANGED <<argv, env, args, defsfile_template, makefile_template, files,
                   stdout, exit_msg>>

\* --ccmd, --include and --lib arguments
SetCommandAndPaths ==
    /\ pc = "paths"
    /\ definitions' =
          IF args.ccmd # <<>> THEN Put(definitions, "COMPILER_COMMAND", args.ccmd[1])
          ELSE definitions
    /\ makefile_options' =
          AddTo(AddTo(IF args.ccmd # <<>>
                      THEN Put(makefile_options, "COMPILER_COMMAND", args.ccmd[1])
                      ELSE makefile_options,
                "COMPILER_FLAGS", PathFlags("-I", args.include)),
                "LINKER_FLAGS", PathFlags("-L", args.lib))
    /\ pc' = "assemble"
    /\ UNCHANGED <<argv, env, args, defsfile_template, makefile_template, files,
                   stdout, exit_msg>>

\* Assemble all flags of any sort given to compiler
AssembleFlags ==
    /\ pc = "assemble"
    /\ definitions' = Put(definitions, "COMPILER_FLAGS", JoinFlags(makefile_options))
    /\ pc' = "extensions"
    /\ UNCHANGED <<argv, env, args, makefile_options, defsfile_template,
                   makefile_template, files, stdout, exit_msg>>

\* Terminate all filenames with .cpp extension
AddExtensions ==
    /\ pc = "extensions"
    /\ makefile_options' = TerminateFilenames(makefile_options)
    /\ pc' = "read"
    /\ UNCHANGED <<argv, env, args, definitions, defsfile_template, makefile_template,
                   files, stdout, exit_msg>>

\* Read templates: src/defs.hpp.in first, then Makefile.in
ReadTemplates ==
    /\ pc = "read"
    /\ IF env.defs_in = <<>>
       THEN /\ Abort("IOError: src/defs.hpp.in")
            /\ UNCHANGED <<defsfile_template, makefile_template>>
       ELSE IF env.make_in = <<>>
       THEN /\ Abort("IOError: Makefile.in")
            /\ defsfile_template' = env.defs_in[1]
            /\ UNCHANGED makefile_template
       ELSE /\ defsfile_template' = env.defs_in[1]
            /\ makefile_template' = env.make_in[1]
            /\ pc' = "substitute"
            /\ UNCHANGED exit_msg
    /\ UNCHANGED <<argv, env, args, definitions, makefile_options, files, stdout>>

\* Make substitutions: the definitions loop, then the makefile_options loop
MakeSubstitutions ==
    /\ pc = "substitute"
    /\ LET d == SubstituteAll(definitions, ItemsOrder(DefinitionsKeys, env.order), 1,
                              defsfile_template)
           m == SubstituteAll(makefile_options, ItemsOrder(MakefileKeys, env.order), 1,
                              makefile_template)
       IN  IF d = <<>>
           THEN /\ Abort("re.error")
                /\ UNCHANGED <<defsfile_template, makefile_template>>
           ELSE IF m = <<>>
           THEN /\ Abort("re.error")
                /\ defsfile_template' = d[1]
                /\ UNCHANGED makefile_template
           ELSE /\ defsfile_template' = d[1]
                /\ makefile_template' = m[1]
                /\ pc' = "write_defs"
                /\ UNCHANGED exit_msg
    /\ UNCHANGED <<argv, env, args, definitions, makefile_options, files, stdout>>

\* Write output files: src/defs.hpp
WriteDefsfile ==
    /\ pc = "write_defs"
    /\ IF env.defs_writable
       THEN /\ files' = [files EXCEPT !.defs = <<defsfile_template>>]
            /\ pc' = "write_makefile"
            /\ UNCHANGED exit_msg
       ELSE Abort("IOError: src/defs.hpp") /\ UNCHANGED files
    /\ UNCHANGED <<argv, env, args, definitions, makefile_options, defsfile_template,
                   makefile_template, stdout>>

\* Write output files: Makefile
WriteMakefile ==
    /\ pc = "write_makefile"
    /\ IF env.make_writable
       THEN /\ files' = [files EXCEPT !.makefile = <<makefile_template>>]
            /\ pc' = "print"
            /\ UNCHANGED exit_msg
       ELSE Abort("IOError: Makefile") /\ UNCHANGED files
    /\ UNCHANGED <<argv, env, args, definitions, makefile_options, defsfile_template,
                   makefile_template, stdout>>

\* Finish with diagnostic output
PrintSummary ==
    /\ pc = "print"
    /\ stdout' = Summary(args, makefile_options)
    /\ pc' = "done"
    /\ UNCHANGED <<argv, env, args, definitions, makefile_options, defsfile_template,
                   makefile_template, files, exit_msg>>

Next ==
    \/ ParseArgs
    \/ SetDefaultFlux
    \/ CheckCompatibility
    \/ SetPhysics
    \/ SetCompiler
    \/ SetDebug
    \/ SetMpi
    \/ SetOmp
    \/ SetHdf5
    \/ SetCommandAndPaths
    \/ AssembleFlags
    \/ AddExtensions
    \/ ReadTemplates
    \/ MakeSubstitutions
    \/ WriteDefsfile
    \/ WriteMakefile
    \/ PrintSummary

-----------------------------------------------------------------------------
(* Initial states: the command lines and the files the script is run with *)

\* the state before the first statement of step 1 runs, for a command line and files
Start(cmdline, e) ==
    /\ pc = "parse"
    /\ argv = cmdline
    /\ env = e
    /\ args = Defaults
    /\ definitions = EmptyDict
    /\ makefile_options = EmptyDict
    /\ defsfile_template = ""
    /\ makefile_template = ""
    /\ files = [defs |-> <<>>, makefile |-> <<>>]
    /\ stdout = <<>>
    /\ exit_msg = <<>>

\* a src/defs.hpp.in and a Makefile.in that use keys of the two dictionaries
DefsTemplate ==
    "#define PROBLEM_GENERATOR \"@PROBLEM@\"\n"
    \o "#define RIEMANN_SOLVER \"@RSOLVER@\"\n"
    \o "#define NHYDRO @NHYDRO_VARIABLES@\n"
    \o "#define COMPILED_WITH_OPTIONS \"@COMPILER_FLAGS@\"\n"

MakeTemplate ==
    "CXX := @COMPILER_COMMAND@\n"
    \o "CXXFLAGS := @COMPILER_FLAGS@\n"
    \o "EOS_FILE = @EOS_FILE@\n"
    \o "RSOLVER_FILE = @RSOLVER_FILE@\n"

\* both templates readable, both outputs writable
Env(defs, make, order) ==
    [defs_in |-> <<defs>>, make_in |-> <<make>>,
     defs_writable |-> TRUE, make_writable |-> TRUE, order |-> order]

\* every choice of coordinates, equation of state, flux and -b -s -g -t, and one
\* --eos value argparse rejects
PhysicsCommandLines ==
    {[Defaults EXCEPT !.coord = c, !.eos = e, !.flux = f,
                      !.b = m[1], !.s = m[2], !.g = m[3], !.t = m[4]] :
        c \in coord_choices, e \in eos_choices \cup {"polytropic"},
        f \in flux_choices, m \in BOOLEAN \X BOOLEAN \X BOOLEAN \X BOOLEAN}

Init == \E a \in PhysicsCommandLines : Start(a, Env(DefsTemplate, MakeTemplate, "insertion"))

Spec == Init /\ [][Next]_vars

\* paths given to --include, --lib and --hdf5_path
Paths == {"/opt/x"}

PathLists == UNION {[1..n -> Paths] : n \in 0..MaxPaths}

\* a few physics selections: hydro, MHD, GR with frame transformations, and
\* one the compatibility tests reject
FlagsPhysics ==
    {Defaults,
     [Defaults EXCEPT !.b = TRUE, !.eos = "isothermal"],
     [Defaults EXCEPT !.g = TRUE, !.t = TRUE, !.b = TRUE, !.coord = "schwarzschild",
                      !.flux = "hlle"],
     [Defaults EXCEPT !.s = TRUE, !.g = TRUE]}

\* every toolchain option, and one --cxx value argparse rejects
FlagsCommandLines ==
    {[p EXCEPT !.cxx = c, !.debug = o[1], !.mpi = o[2], !.omp = o[3], !.hdf5 = o[4],
               !.hdf5_path = h, !.ccmd = cc, !.include = inc, !.lib = lib] :
        p \in FlagsPhysics, c \in cxx_choices \cup {"clang++"},
        o \in BOOLEAN \X BOOLEAN \X BOOLEAN \X BOOLEAN,
        h \in {""} \cup Paths, cc \in {<<>>, <<"mycc">>},
        inc \in PathLists, lib \in PathLists}

InitFlags ==
    \E a \in FlagsCommandLines : Start(a, Env(DefsTemplate, MakeTemplate, "insertion"))

SpecFlags == InitFlags /\ [][Next]_vars

\* pieces a drawn template is put together from: placeholders of keys the
\* dictionaries hold, a placeholder of no key, and plain text
DefsPieces == {"@COMPILER_COMMAND@", "@DEBUG@", "@PROBLEM@", "@UNSET@", "x = "}

MakePieces == {"@COMPILER_COMMAND@", "@PROBLEM_FILE@", "@UNSET@"}

RECURSIVE Concat(_)
Concat(seq) == IF seq = <<>> THEN "" ELSE Head(seq) \o Concat(Tail(seq))

\* the templates of at most n pieces
Templates(pieces, n) == {Concat(q) : q \in UNION {[1..m -> pieces] : m \in 0..n}}

\* values given to --ccmd: none, a plain name, the text of a placeholder of a
\* key added after COMPILER_COMMAND, one of a key added before it, a doubled
\* backslash, and a backslash at the end
CcmdValues == {<<>>, <<"mycc">>, <<"@DEBUG@">>, <<"@PROBLEM@">>, <<"a\\\\b">>, <<"a\\">>}

SubstCommandLines ==
    {[Defaults EXCEPT !.ccmd = cc, !.debug = d] : cc \in CcmdValues, d \in BOOLEAN}

\* a src/defs.hpp.in in which the text between two placeholders is the name of
\* a key
StraddlingTemplate == "@MPI_OPTION@DEBUG@HDF5_OPTION@"

InitSubst ==
    \E a \in SubstCommandLines,
       d \in Templates(DefsPieces, MaxDefsPieces) \cup {StraddlingTemplate},
       m \in Templates(MakePieces, MaxMakePieces), o \in {"insertion", "reversed"} :
        Start(a, Env(d, m, o))

SpecSubst == InitSubst /\ [][Next]_vars

-----------------------------------------------------------------------------
(* The command lines of the regression scripts *)

\* text begins with prefix
StartsWith(text, prefix) ==
    Len(prefix) <= Len(text) /\ SubSeq(text, 1, Len(prefix)) = prefix

\* the options add_argument declares with a value (--name) and the ones it
\* declares as store_true flags (-name)
LongOptions ==
    {"prob", "coord", "eos", "flux", "order", "fint", "cxx", "ccmd",
     "include", "lib", "hdf5_path"}

FlagOptions == {"b", "s", "g", "t", "sh", "debug", "mpi", "omp", "hdf5"}

\* --name=val: store the value; --include and --lib append it
SetOption(a, name, val) ==
    CASE name = "prob" -> [a EXCEPT !.prob = val]
      [] name = "coord" -> [a EXCEPT !.coord = val]
      [] name = "eos" -> [a EXCEPT !.eos = val]
      [] name = "flux" -> [a EXCEPT !.flux = val]
      [] name = "order" -> [a EXCEPT !.order = val]
      [] name = "fint" -> [a EXCEPT !.fint = val]
      [] name = "cxx" -> [a EXCEPT !.cxx = val]
      [] name = "ccmd" -> [a EXCEPT !.ccmd = <<val>>]
      [] name = "include" -> [a EXCEPT !.include = Append(@, val)]
      [] name = "lib" -> [a EXCEPT !.lib = Append(@, val)]
      [] name = "hdf5_path" -> [a EXCEPT !.hdf5_path = val]

\* -name: store True
SetFlag(a, name) ==
    CASE name = "b" -> [a EXCEPT !.b = TRUE]
      [] name = "s" -> [a EXCEPT !.s = TRUE]
      [] name = "g" -> [a EXCEPT !.g = TRUE]
      [] name = "t" -> [a EXCEPT !.t = TRUE]
      [] name = "sh" -> [a EXCEPT !.sh = TRUE]
      [] name = "debug" -> [a EXCEPT !.debug = TRUE]
      [] name = "mpi" -> [a EXCEPT !.mpi = TRUE]
      [] name = "omp" -> [a EXCEPT !.omp = TRUE]
      [] name = "hdf5" -> [a EXCEPT !.hdf5 = TRUE]

\* the one-letter flags of name[i..], one after the other
RECURSIVE SetFlags(_, _, _)
SetFlags(a, name, i) ==
    IF i > Len(name) THEN a
    ELSE SetFlags(SetFlag(a, SubSeq(name, i, i)), name, i + 1)

\* What argparse does with one token of the command line, given the declared
\* options. '--key=val': key is the name of a declared option or the prefix of
\* exactly one. '-name': name is a declared flag; or its first letter is a
\* one-letter flag and the rest are taken as further one-letter flags; or it is
\* the prefix of exactly one declared flag. Any other token is one the parser
\* cannot place, and ends the run with an error. ('--key val' in two tokens and
\* -h are not modelled.)
ParseToken(a, tok) ==
    LET bad == [a EXCEPT !.unrecognized = Append(@, tok)]
    IN  IF StartsWith(tok, "--")
        THEN LET eq == Find("=", tok, 1)
                 key == SubSeq(tok, 3, eq - 1)
                 val == SubSeq(tok, eq + 1, Len(tok))
                 matches == IF key \in LongOptions THEN {key}
                            ELSE {o \in LongOptions : StartsWith(o, key)}
             IN  IF eq = 0 \/ Cardinality(matches) # 1 THEN bad
                 ELSE SetOption(a, CHOOSE o \in matches : TRUE, val)
        ELSE IF StartsWith(tok, "-") /\ Len(tok) > 1
        THEN LET name == SubSeq(tok, 2, Len(tok))
                 short == {f \in FlagOptions : f = SubSeq(name, 1, 1)}
                 abbreviated == {f \in FlagOptions : StartsWith(f, name)}
             IN  IF name \in FlagOptions THEN SetFlag(a, name)
                 ELSE IF Cardinality(short) + Cardinality(abbreviated) # 1 THEN bad
                 ELSE IF abbreviated # {}
                 THEN SetFlag(a, CHOOSE f \in abbreviated : TRUE)
                 ELSE IF \A i \in 1..Len(name) : SubSeq(name, i, i) \in FlagOptions
                 THEN SetFlags(a, name, 1)
                 ELSE bad
        ELSE bad

\* the namespace built from the tokens, left to right, starting from the defaults
RECURSIVE ParseTokens(_, _)
ParseTokens(a, tokens) ==
    IF tokens = <<>> THEN a
    ELSE ParseTokens(ParseToken(a, Head(tokens)), Tail(tokens))

\* athena.configure(*flags, **kwargs) of the regression harness: the command line
\* 'configure.py' is run with, '-flag' for each positional argument and
\* '--key=val' for each keyword argument
ConfigureTokens(flags, kwargs) ==
    [i \in 1..Len(flags) |-> "-" \o flags[i]]
        \o [i \in 1..Len(kwargs) |-> "--" \o kwargs[i][1] \o "=" \o kwargs[i][2]]

\* the calls of athena.configure in the prepare() of the regression scripts
compile_schwarzschild ==
    [flags |-> <<"gtb">>,
     kwargs |-> << <<"prob", "gr_bondi">>, <<"coord", "schwarzschild">>,
                   <<"flux", "hlle">> >>]

resistive_diffusion_sts ==
    [flags |-> <<"b", "sts">>,
     kwargs |-> << <<"prob", "resist">>, <<"eos", "isothermal">> >>]

unstable_jeans_3d_fft ==
    [flags |-> <<"fft">>,
     kwargs |-> << <<"prob", "jeans">>, <<"grav", "fft">> >>]

omp_linwave ==
    [flags |-> <<"b", "omp">>,
     kwargs |-> << <<"prob", "linear_wave">>, <<"coord", "cartesian">>,
                   <<"flux", "hlld">> >>]

omp_linwave_serial ==
    [flags |-> <<"b">>,
     kwargs |-> << <<"prob", "linear_wave">>, <<"coord", "cartesian">>,
                   <<"flux", "hlld">> >>]

blast_cyl ==
    [flags |-> <<>>,
     kwargs |-> << <<"prob", "blast">>, <<"coord", "cylindrical">> >>]

amr_linwave ==
    [flags |-> <<"b">>,
     kwargs |-> << <<"prob", "linear_wave">>, <<"coord", "cartesian">>,
                   <<"flux", "hlld">> >>]

RegressionCalls ==
    {compile_schwarzschild, resistive_diffusion_sts, unstable_jeans_3d_fft,
     omp_linwave, omp_linwave_serial, blast_cyl, amr_linwave}

InitTests ==
    \E c \in RegressionCalls, o \in {"insertion", "reversed"} :
        Start(ParseTokens(Defaults, ConfigureTokens(c.flags, c.kwargs)),
              Env(DefsTemplate, MakeTemplate, o))

SpecTests == InitTests /\ [][Next]_vars

\* the file system a run meets: everything readable and writable, or exactly one
\* of the two templates unreadable, or exactly one of the two outputs unwritable
IoEnvs ==
    LET ok == Env(DefsTemplate, MakeTemplate, "insertion")
    IN  {ok,
         [ok EXCEPT !.defs_in = <<>>],
         [ok EXCEPT !.make_in = <<>>],
         [ok EXCEPT !.defs_writable = FALSE],
         [ok EXCEPT !.make_writable = FALSE]}

InitIO == \E a \in PhysicsCommandLines, e \in IoEnvs : Start(a, e)

SpecIO == InitIO /\ [][Next]_vars

-----------------------------------------------------------------------------
(* Where a run stands *)

\* the compatibility tests have run (on an option set argparse accepted)
Checked == ParseOK(argv) /\ pc \notin {"parse", "default_flux", "check"}

\* the run ended in one of the SystemExit calls of step 2
Rejected == Checked /\ pc = "exit" /\ DOMAIN definitions = {}

\* the option set passed step 2 (the run went on to step 3)
Accepted == Checked /\ ~Rejected

\* step 3 and the '.cpp' endings are complete
AfterStep3 ==
    \/ pc \in {"read", "substitute", "write_defs", "write_makefile", "print", "done"}
    \/ pc = "exit" /\ DOMAIN makefile_options # {}

-----------------------------------------------------------------------------
(* The nine compatibility rules as the specification numbers them *)

RuleViolated(k, a) ==
    CASE k = 1 -> Rule1(a) [] k = 2 -> Rule2(a) [] k = 3 -> Rule3(a)
      [] k = 4 -> Rule4(a) [] k = 5 -> Rule5(a) [] k = 6 -> Rule6(a)
      [] k = 7 -> Rule7(a) [] k = 8 -> Rule8(a) [] k = 9 -> Rule9(a)

ViolatedRules(a) == {k \in 1..9 : RuleViolated(k, a)}

RuleMessage(k, a) ==
    CASE k = 1 -> Msg1 [] k = 2 -> Msg2 [] k = 3 -> Msg3
      [] k = 4 -> Msg4 [] k = 5 -> Msg5 [] k = 6 -> Msg6(a)
      [] k = 7 -> Msg7(a) [] k = 8 -> Msg8(a) [] k = 9 -> Msg9

Least(S) == CHOOSE k \in S : \A j \in S : k <= j

\* C1: once the compatibility tests have run, the run is rejected iff the option
\* set (flux already resolved) violates at least one of the nine rules, the
\* message is that of the lowest-numbered violated rule, and an option set that
\* violates none has gone on to step 3.
C1_FirstViolatedRuleReported ==
    Checked =>
        LET V == ViolatedRules(args) IN
        /\ Rejected <=> V # {}
        /\ V # {} => exit_msg = <<RuleMessage(Least(V), args)>>
        /\ V = {} => Accepted /\ (pc = "exit" => DOMAIN definitions # {})

\* C1 witness: a rejected run whose option set violates rules 1 and 2 at once
C1_Witness ==
    Rejected /\ {1, 2} \subseteq ViolatedRules(args) /\ exit_msg = <<Msg1>>

\* C2: when flux was left as 'default', the resolved flux violates none of the
\* flux-related rules 1, 2, 3 and 6, and none of their messages is the reason
\* for a rejection.
C2_DefaultFluxNeverRejected ==
    (Checked /\ argv.flux = "default") =>
        /\ ViolatedRules(args) \cap {1, 2, 3, 6} = {}
        /\ exit_msg \notin {<<Msg1>>, <<Msg2>>, <<Msg3>>, <<Msg6(args)>>}

\* C2 witness: default flux with GR, magnetism and no frame transformations,
\* rejected (for its coordinates, not for its flux)
C2_Witness ==
    /\ Rejected /\ argv.flux = "default"
    /\ args.g /\ args.b /\ ~args.t /\ exit_msg = <<Msg7(args)>>

FiveFluxes == {"hlle", "hllc", "hlld", "roe", "llf"}

\* C3: after default selection the flux is 'hlle' under GR, else 'hlld' under
\* magnetism, else 'hlle' for isothermal EOS, else 'hllc' when it was left as
\* 'default', and the given flux otherwise; RSOLVER and the flux of the summary
\* are that flux, one of the five solvers, never 'default'.
C3_DefaultFluxPrecedence ==
    (ParseOK(argv) /\ pc \notin {"parse", "default_flux"}) =>
        /\ argv.flux = "default" /\ argv.g => args.flux = "hlle"
        /\ argv.flux = "default" /\ ~argv.g /\ argv.b => args.flux = "hlld"
        /\ argv.flux = "default" /\ ~argv.g /\ ~argv.b /\ argv.eos = "isothermal"
              => args.flux = "hlle"
        /\ argv.flux = "default" /\ ~argv.g /\ ~argv.b /\ argv.eos # "isothermal"
              => args.flux = "hllc"
        /\ argv.flux # "default" => args.flux = argv.flux
        /\ "RSOLVER" \in DOMAIN definitions =>
              definitions["RSOLVER"] = args.flux /\ definitions["RSOLVER"] \in FiveFluxes
        /\ stdout # <<>> =>
              \E f \in FiveFluxes :
                  f = args.flux /\ stdout[5] = "  Riemann solver:          " \o f

\* C3 witness: a finished run with flux left as 'default' and magnetism on
\* (end-to-end scenario 1: hlld, NWAVE 7, NFIELD 3)
C3_Witness ==
    /\ pc = "done" /\ argv.flux = "default" /\ argv.b /\ argv.eos = "adiabatic"
    /\ definitions["RSOLVER"] = "hlld"
    /\ definitions["NWAVE_VALUE"] = "7" /\ definitions["NFIELD_VARIABLES"] = "3"

\* an option set meant to violate rule k and no other
MinimalViolation(k) ==
    CASE k = 1 -> [Defaults EXCEPT !.flux = "hllc", !.eos = "isothermal"]
      [] k = 2 -> [Defaults EXCEPT !.flux = "hllc", !.b = TRUE]
      [] k = 3 -> [Defaults EXCEPT !.flux = "hlld"]
      [] k = 4 -> [Defaults EXCEPT !.s = TRUE, !.g = TRUE, !.t = TRUE,
                                   !.coord = "schwarzschild"]
      [] k = 5 -> [Defaults EXCEPT !.t = TRUE]
      [] k = 6 -> [Defaults EXCEPT !.g = TRUE, !.flux = "roe", !.coord = "schwarzschild"]
      [] k = 7 -> [Defaults EXCEPT !.g = TRUE, !.t = TRUE]
      [] k = 8 -> [Defaults EXCEPT !.coord = "minkowski"]
      [] k = 9 -> [Defaults EXCEPT !.eos = "isothermal", !.s = TRUE]

\* C4: for each rule k there is an option set over the declared choices that
\* violates rule k and no other, and a run on it is rejected with rule k's
\* message; the baseline option set violates none and is accepted.
C4_RulesIndependentlyTestable ==
    /\ \A k \in 1..9 :
          LET o == MinimalViolation(k)
              a == [o EXCEPT !.flux = DefaultFlux(o)]
          IN  /\ ParseOK(o)
              /\ ViolatedRules(a) = {k}
              /\ (Checked /\ argv = o) => Rejected /\ exit_msg = <<RuleMessage(k, args)>>
    /\ ViolatedRules([Defaults EXCEPT !.flux = DefaultFlux(Defaults)]) = {}
    /\ (Checked /\ argv = Defaults) => Accepted

\* C4 witness: the run on the option set that violates rule 6 alone
\* (end-to-end scenario 3) has been rejected
C4_Witness ==
    /\ argv = MinimalViolation(6) /\ Rejected
    /\ exit_msg = <<"### CONFIGURE ERROR: Frame transformations required for roe">>

\* C5: for every accepted option set NHYDRO_VARIABLES, NFIELD_VARIABLES and
\* NWAVE_VALUE are the entries of the 2x2 table over EOS and magnetism, whatever
\* the other options are.
C5_VariableCounts ==
    (Accepted /\ DOMAIN definitions # {}) =>
        /\ definitions["NHYDRO_VARIABLES"] = (IF argv.eos = "adiabatic" THEN "5" ELSE "4")
        /\ definitions["NFIELD_VARIABLES"] = (IF argv.b THEN "3" ELSE "0")
        /\ definitions["NWAVE_VALUE"] =
              CASE argv.eos = "adiabatic" /\ argv.b -> "7"
                [] argv.eos = "isothermal" /\ argv.b -> "6"
                [] argv.eos = "adiabatic" /\ ~argv.b -> "5"
                [] argv.eos = "isothermal" /\ ~argv.b -> "4"

\* C5 witness: an accepted isothermal MHD run (4 hydro variables, 3 field
\* components, 6 waves)
C5_Witness ==
    /\ pc = "done" /\ argv.eos = "isothermal" /\ argv.b
    /\ definitions["NWAVE_VALUE"] = "6" /\ definitions["NHYDRO_VARIABLES"] = "4"

\* the flux-solver file name as C6 states it: '_no_transform' under either
\* relativity flag
RsolverFileAsClaimed(a, no_transform) ==
    a.flux
    \o (IF a.b /\ a.flux \in {"hlle", "llf", "roe"} THEN "_mhd" ELSE "")
    \o (IF a.b /\ a.eos = "isothermal" /\ a.flux = "hlld" THEN "_iso" ELSE "")
    \o (IF a.s \/ a.g THEN "_rel" ELSE "")
    \o (IF no_transform THEN "_no_transform" ELSE "")
    \o ".cpp"

\* C6 as stated: the flux-solver file name is the flux, '_mhd' iff magnetism with
\* hlle, llf or roe, '_iso' iff isothermal MHD with hlld, '_rel' once iff SR or
\* GR, '_no_transform' whenever a relativity flag is set without frame
\* transformations, then '.cpp'.
C6_RsolverFileAsStated ==
    AfterStep3 =>
        makefile_options["RSOLVER_FILE"]
            = RsolverFileAsClaimed(args, (args.s \/ args.g) /\ ~args.t)

\* C6 amended: as stated, except that '_no_transform' is appended exactly when
\* general relativity is set without frame transformations (never for special
\* relativity alone).
C6_RsolverFileAmended ==
    AfterStep3 =>
        makefile_options["RSOLVER_FILE"] = RsolverFileAsClaimed(args, args.g /\ ~args.t)

\* C6 witness: an accepted special-relativistic MHD run with a completed name
C6_Witness ==
    /\ pc = "done" /\ args.s /\ args.b /\ args.flux = "hlle"
    /\ makefile_options["RSOLVER_FILE"] = "hlle_mhd_rel.cpp"

\* C7: the equation-of-state file name is the EOS, then '_mhd' with magnetism
\* and '_hydro' without, then '_sr' under SR or '_gr' under GR, then '.cpp'.
C7_EosFileName ==
    AfterStep3 =>
        makefile_options["EOS_FILE"] =
            args.eos
            \o (IF args.b THEN "_mhd" ELSE "_hydro")
            \o (IF args.s THEN "_sr" ELSE IF args.g THEN "_gr" ELSE "")
            \o ".cpp"

\* C7 witness: an accepted general-relativistic MHD run
C7_Witness ==
    /\ pc = "done" /\ args.g /\ args.b
    /\ makefile_options["EOS_FILE"] = "adiabatic_mhd_gr.cpp"

\* flag is one of the space-separated tokens of flags
HasToken(flags, flag) == Find(" " \o flag \o " ", " " \o flags \o " ", 1) # 0

\* C8: with -debug the aggregate flags string and the compiler flag string hold
\* the toolchain's debug flags and not the base optimisation flag -O3, and what
\* later steps append comes after the debug flags.
C8_DebugOverridesOptimization ==
    (args.debug /\ "COMPILER_FLAGS" \in DOMAIN definitions) =>
        /\ StartsWith(makefile_options["COMPILER_FLAGS"], DebugFlags(args.cxx))
        /\ ~HasToken(makefile_options["COMPILER_FLAGS"], "-O3")
        /\ Find(DebugFlags(args.cxx), definitions["COMPILER_FLAGS"], 1) # 0
        /\ ~HasToken(definitions["COMPILER_FLAGS"], "-O3")

\* C9: from the moment it is computed, the aggregate COMPILER_FLAGS definition
\* is the preprocessor, compiler, linker and library flag strings joined by
\* single spaces in that order, and the four strings hold what every step
\* (toolchain, debug, MPI, OpenMP, HDF5, --include, --lib) gave them.
C9_AggregateFlags ==
    "COMPILER_FLAGS" \in DOMAIN definitions =>
        /\ definitions["COMPILER_FLAGS"] =
              makefile_options["PREPROCESSOR_FLAGS"] \o " "
              \o makefile_options["COMPILER_FLAGS"] \o " "
              \o makefile_options["LINKER_FLAGS"] \o " "
              \o makefile_options["LIBRARY_FLAGS"]
        /\ makefile_options["PREPROCESSOR_FLAGS"] =
              (IF args.hdf5 THEN Hdf5PreprocessorSuffix(args) ELSE "")
        /\ makefile_options["COMPILER_FLAGS"] =
              (IF args.debug THEN DebugFlags(args.cxx) ELSE BaseCompilerFlags(args.cxx))
              \o (IF args.mpi /\ args.cxx = "cray" THEN " -h mpi1" ELSE "")
              \o OmpFlagSuffix(args.cxx, args.omp)
              \o PathFlags("-I", args.include)
        /\ makefile_options["LINKER_FLAGS"] =
              BaseLinkerFlags(args.cxx)
              \o (IF args.hdf5 THEN Hdf5LinkerSuffix(args) ELSE "")
              \o PathFlags("-L", args.lib)
        /\ makefile_options["LIBRARY_FLAGS"] =
              BaseLibraryFlags(args.cxx)
              \o (IF args.hdf5 THEN Hdf5LibrarySuffix(args) ELSE "")

\* C9 witness: a finished Cray debug run with MPI, HDF5 at a given path, an
\* include path and a library path
C9_Witness ==
    /\ pc = "done" /\ args.cxx = "cray" /\ args.debug /\ args.mpi /\ args.hdf5
    /\ args.hdf5_path # "" /\ args.include # <<>> /\ args.lib # <<>>
    /\ definitions["COMPILER_FLAGS"] =
          "-I/opt/x/include -O0 -h mpi1 -hnoomp -I/opt/x"
          \o " -hwp -hpl=obj/lib-L/opt/x/lib -L/opt/x -lm -lhdf5"

RECURSIVE SubstitutedAtOnce(_, _, _)
\* the template from position i on, every @NAME@ with NAME a key of d replaced by
\* d[NAME], read left to right, everything else copied
SubstitutedAtOnce(d, text, i) ==
    LET open == Find("@", text, i)
        close == IF open = 0 THEN 0 ELSE Find("@", text, open + 1)
    IN  IF close = 0 THEN SubSeq(text, i, Len(text))
        ELSE LET name == SubSeq(text, open + 1, close - 1) IN
             IF name \in DOMAIN d
             THEN SubSeq(text, i, open - 1) \o d[name] \o SubstitutedAtOnce(d, text, close + 1)
             ELSE SubSeq(text, i, open) \o SubstitutedAtOnce(d, text, open + 1)

\* both loops of "Make substitutions" have run to their end
Substituted ==
    \/ pc \in {"write_defs", "write_makefile", "print", "done"}
    \/ pc = "exit" /\ exit_msg \in {<<"IOError: src/defs.hpp">>, <<"IOError: Makefile">>}

\* C10: substitution replaces every @NAME@ whose NAME is a key of the mapping by
\* the mapped value and leaves placeholders of other names and all other text as
\* they are in the template; a placeholder without a key is no error (re.sub
\* raises only on a backslash in a value).
C10_SubstitutionAsStated ==
    /\ Substituted =>
          /\ defsfile_template = SubstitutedAtOnce(definitions, env.defs_in[1], 1)
          /\ makefile_template = SubstitutedAtOnce(makefile_options, env.make_in[1], 1)
    /\ (pc = "exit" /\ exit_msg = <<"re.error">>) =>
          \/ \E k \in DOMAIN definitions : Find("\\", definitions[k], 1) # 0
          \/ \E k \in DOMAIN makefile_options : Find("\\", makefile_options[k], 1) # 0

\* the characters a placeholder name is made of
NameChars ==
    {"A", "B", "C", "D", "E", "F", "G", "H", "I", "J", "K", "L", "M", "N", "O", "P",
     "Q", "R", "S", "T", "U", "V", "W", "X", "Y", "Z", "_",
     "0", "1", "2", "3", "4", "5", "6", "7", "8", "9"}

IsName(text) ==
    Len(text) > 0 /\ \A i \in 1..Len(text) : SubSeq(text, i, i) \in NameChars

\* the names NAME of the delimiter-wrapped tokens @NAME@ in text: a name between
\* two '@' with no '@' in between
Placeholders(text) ==
    LET ats == {i \in 1..Len(text) : SubSeq(text, i, i) = "@"}
    IN  {SubSeq(text, i + 1, j - 1) :
            <<i, j>> \in {q \in ats \X ats :
                            /\ q[1] < q[2]
                            /\ \A k \in ats : ~(q[1] < k /\ k < q[2])
                            /\ IsName(SubSeq(text, q[1] + 1, q[2] - 1))}}

\* no value of the mapping holds a '@'
NoAtInValues(d) == \A k \in DOMAIN d : Find("@", d[k], 1) = 0

\* C11: when every placeholder name of a template is a key of its mapping, the
\* substituted text holds no @NAME@ token any more. Stated here for the runs whose
\* mapped values hold no '@' themselves, where the tokens left cannot come from a
\* user-supplied string.
C11_SubstitutionTotality ==
    Substituted =>
        /\ (Placeholders(env.defs_in[1]) \subseteq DOMAIN definitions
                /\ NoAtInValues(definitions))
              => Placeholders(defsfile_template) = {}
        /\ (Placeholders(env.make_in[1]) \subseteq DOMAIN makefile_options
                /\ NoAtInValues(makefile_options))
              => Placeholders(makefile_template) = {}

\* C12: for fixed options and templates the artifact text is the same whatever
\* the order in which the entries of a mapping are applied to the template.
C12_OrderIndependent ==
    Substituted =>
        \A o \in {"insertion", "reversed"} :
            /\ SubstituteAll(definitions, ItemsOrder(DefinitionsKeys, o), 1,
                             env.defs_in[1]) = <<defsfile_template>>
            /\ SubstituteAll(makefile_options, ItemsOrder(MakefileKeys, o), 1,
                             env.make_in[1]) = <<makefile_template>>

\* the status the process ends with: argparse's error() exits with 2, SystemExit
\* with a message and an uncaught exception with 1, the end of the script with 0
ExitStatus ==
    IF exit_msg = <<>> THEN 0
    ELSE IF StartsWith(exit_msg[1], "configure.py: error: ") THEN 2
    ELSE 1

\* a template has been read, an artifact written, or the summary printed
FilesTouched ==
    \/ defsfile_template # "" \/ makefile_template # ""
    \/ files.defs # <<>> \/ files.makefile # <<>>
    \/ stdout # <<>>

\* C13: an option set that fails to parse ends the run with the parser's message
\* before the default flux is resolved or any rule evaluated; an option set that
\* violates one of the nine rules ends the run at the tests; either way the status
\* is nonzero, there is a message, no template has been read, no artifact written
\* and no summary printed. The summary is printed only when both artifacts have
\* been written.
C13_ValidationPrecedesFiles ==
    /\ (~ParseOK(argv) /\ pc # "parse") =>
            /\ pc = "exit"
            /\ exit_msg = <<"configure.py: error: invalid choice">>
            /\ args = Defaults
            /\ ExitStatus # 0
            /\ ~FilesTouched
    /\ (Checked /\ ViolatedRules(args) # {}) =>
            /\ pc = "exit"
            /\ exit_msg # <<>>
            /\ ExitStatus # 0
            /\ ~FilesTouched
    /\ ~Checked => ~FilesTouched
    /\ stdout # <<>> => (files.defs # <<>> /\ files.makefile # <<>>)

\* a run that asked for a coordinate system of GR without -g has ended, untouched
C13_Witness ==
    /\ Checked /\ ViolatedRules(args) = {8}
    /\ pc = "exit" /\ exit_msg = <<Msg8(args)>>
    /\ ~FilesTouched

\* C14: a run that has ended has written both artifacts, each with its
\* substituted text, or neither.
C14_NoPartialOutput ==
    pc \in {"done", "exit"} =>
        \/ files.defs = <<>> /\ files.makefile = <<>>
        \/ files.defs = <<defsfile_template>> /\ files.makefile = <<makefile_template>>

\* C15: every command line a regression script configures with is parsed (every
\* flag and keyword a declared option, every value among its choices), violates
\* none of the nine rules, and its run ends with both artifacts written.
C15_RegressionCallsAccepted ==
    /\ ParseOK(argv)
    /\ Checked => ViolatedRules(args) = {}
    /\ pc # "exit"
    /\ pc = "done" => (files.defs # <<>> /\ files.makefile # <<>>)

\* C16: once the aggregate is computed, every flag a step appended (the -I and -L
\* of --hdf5_path, -lhdf5, the OpenMP flag, the -I of each --include and the -L of
\* each --lib) is a space-delimited token of the flag string it was appended to
\* and of the aggregate COMPILER_FLAGS definition.
C16_AppendedFlagsAreTokens ==
    "COMPILER_FLAGS" \in DOMAIN definitions =>
        LET all == definitions["COMPILER_FLAGS"]
            In(key, flag) == HasToken(makefile_options[key], flag) /\ HasToken(all, flag)
        IN  /\ (args.hdf5 /\ args.hdf5_path # "") =>
                  /\ In("PREPROCESSOR_FLAGS", "-I" \o args.hdf5_path \o "/include")
                  /\ In("LINKER_FLAGS", "-L" \o args.hdf5_path \o "/lib")
            /\ args.hdf5 => In("LIBRARY_FLAGS", "-lhdf5")
            /\ args.omp =>
                  In("COMPILER_FLAGS",
                     SubSeq(OmpFlagSuffix(args.cxx, TRUE), 2,
                            Len(OmpFlagSuffix(args.cxx, TRUE))))
            /\ \A i \in 1..Len(args.include) :
                  In("COMPILER_FLAGS", "-I" \o args.include[i])
            /\ \A i \in 1..Len(args.lib) : In("LINKER_FLAGS", "-L" \o args.lib[i])

====
